---- MODULE Spec2Model ----
(***************************************************************************)
(* A model of the file-backed product / user / review catalog of           *)
(* src/main.cpp (the fuller variant, which seeds an empty store) and of    *)
(* src/unnamed/part_000 (the minimal variant).                             *)
(*                                                                         *)
(* Every command is one process: it reads products.json, users.json and    *)
(* reviews.json, works on the vectors it parsed from them and, for a       *)
(* mutation, rewrites the three files.  Files hold text.  saveData and     *)
(* loadData are modelled on that text, character by character, as the      *)
(* hand-rolled codec of the source works: escapeJsonString, toJson,        *)
(* parseArray, extractJsonValue, stoi and stod.                            *)
(***************************************************************************)
EXTENDS Integers, Sequences, FiniteSets, TLC

(***************************************************************************)
(* Text.  A std::string is a TLA+ string; positions are 1-based here and   *)
(* 0 stands for string::npos.                                              *)
(***************************************************************************)
Ch(s, i) == SubSeq(s, i, i)

Min(S) == CHOOSE x \in S : \A y \in S : x <= y

Max(S) == CHOOSE x \in S : \A y \in S : y <= x

\* std::max on two ints
max(a, b) == IF a >= b THEN a ELSE b

\* std::string::find(pat, from): the first position >= from where pat occurs
Find(s, pat, from) ==
  LET hits == {i \in from..(Len(s) - Len(pat) + 1) : SubSeq(s, i, i + Len(pat) - 1) = pat}
  IN IF hits = {} THEN 0 ELSE Min(hits)

\* std::string::find_first_of(set, from)
FindFirstOf(s, set, from) ==
  LET hits == {i \in from..Len(s) : Ch(s, i) \in set}
  IN IF hits = {} THEN 0 ELSE Min(hits)

\* std::string::find_first_not_of(set)
FindFirstNotOf(s, set) ==
  LET hits == {i \in 1..Len(s) : Ch(s, i) \notin set}
  IN IF hits = {} THEN 0 ELSE Min(hits)

\* std::string::find_last_not_of(set)
FindLastNotOf(s, set) ==
  LET back == {k \in 0..(Len(s) - 1) : Ch(s, Len(s) - k) \notin set}
  IN IF back = {} THEN 0 ELSE Len(s) - Min(back)

\* isspace in the C locale (the vertical tab has no TLA+ escape and is left out)
IsSpace(c) == c \in {" ", "\t", "\n", "\r", "\f"}

IsDigit(c) == c \in {"0", "1", "2", "3", "4", "5", "6", "7", "8", "9"}

DigitVal(c) == CHOOSE d \in 0..9 : ToString(d) = c

\* the value of a run of decimal digits
RECURSIVE DigitsVal(_)
DigitsVal(ds) ==
  IF ds = "" THEN 0
  ELSE 10 * DigitsVal(SubSeq(ds, 1, Len(ds) - 1)) + DigitVal(Ch(ds, Len(ds)))

\* the first position >= from that holds no digit (Len(s) + 1 when there is none)
DigitsEnd(s, from) == Min({i \in from..(Len(s) + 1) : i = Len(s) + 1 \/ ~IsDigit(Ch(s, i))})

\* the first position >= from that holds no white space (Len(s) + 1 when there is none)
SkipSpace(s, from) == Min({i \in from..(Len(s) + 1) : i = Len(s) + 1 \/ ~IsSpace(Ch(s, i))})

(***************************************************************************)
(* escapeJsonString: a quote, a backslash, a newline, a carriage return and *)
(* a tab get a backslash escape; every other character is copied.          *)
(***************************************************************************)
EscapeChar(c) ==
  CASE c = "\"" -> "\\\""
    [] c = "\\" -> "\\\\"
    [] c = "\n" -> "\\n"
    [] c = "\r" -> "\\r"
    [] c = "\t" -> "\\t"
    [] OTHER -> c

\* The loop over the characters, evaluated by halves to keep the evaluation shallow.
RECURSIVE escapeJsonString(_)
escapeJsonString(s) ==
  IF Len(s) = 0 THEN ""
  ELSE IF Len(s) = 1 THEN EscapeChar(s)
  ELSE LET h == Len(s) \div 2
       IN escapeJsonString(SubSeq(s, 1, h)) \o escapeJsonString(SubSeq(s, h + 1, Len(s)))

(***************************************************************************)
(* extractJsonValue.  The value of a quoted string ends at the first quote  *)
(* after the opening one, escaped or not; the unescape loop then replaces  *)
(* backslash-quote by quote in what was cut out.                           *)
(***************************************************************************)
RECURSIVE UnescapeQuotes(_, _)
UnescapeQuotes(val, from) ==
  LET pos == Find(val, "\\\"", from)
  IN IF pos = 0 THEN val
     ELSE UnescapeQuotes(SubSeq(val, 1, pos - 1) \o "\"" \o SubSeq(val, pos + 2, Len(val)), pos + 1)

extractJsonValue(json, key) ==
  LET search == "\"" \o key \o "\":"
      found  == Find(json, search, 1)
  IN IF found = 0 THEN ""
     ELSE LET start == SkipSpace(json, found + Len(search))
          IN IF start > Len(json) THEN ""
             ELSE IF Ch(json, start) = "\""
                  THEN LET end == Find(json, "\"", start + 1)
                       IN IF end # 0 THEN UnescapeQuotes(SubSeq(json, start + 1, end - 1), 1)
                          ELSE ""
                  ELSE LET end == FindFirstOf(json, {" ", "\t", "\n", "\r", ",", "}"}, start)
                       IN IF end # 0 THEN SubSeq(json, start, end - 1) ELSE ""

(***************************************************************************)
(* std::stoi and std::stod: leading white space, an optional sign, digits; *)
(* what follows the number is ignored; no digit at all throws.  A price is *)
(* held in thousandths (99.99 is 99990); stod reads at most three digits   *)
(* of a fraction here, which is all the two-decimal text of a file has.    *)
(***************************************************************************)
NumStart(s) ==
  LET i == SkipSpace(s, 1)
  IN IF i <= Len(s) /\ Ch(s, i) \in {"+", "-"} THEN i + 1 ELSE i

NumNegative(s) ==
  LET i == SkipSpace(s, 1) IN i <= Len(s) /\ Ch(s, i) = "-"

\* stoi returns normally (does not throw std::invalid_argument)
StoiOk(s) == DigitsEnd(s, NumStart(s)) > NumStart(s)

stoi(s) ==
  LET v == DigitsVal(SubSeq(s, NumStart(s), DigitsEnd(s, NumStart(s)) - 1))
  IN IF NumNegative(s) THEN 0 - v ELSE v

\* the fraction digits of the number that starts at NumStart(s)
FracDigits(s) ==
  LET e == DigitsEnd(s, NumStart(s))
  IN IF e <= Len(s) /\ Ch(s, e) = "." THEN SubSeq(s, e + 1, DigitsEnd(s, e + 1) - 1) ELSE ""

StodOk(s) == DigitsEnd(s, NumStart(s)) > NumStart(s) \/ Len(FracDigits(s)) > 0

stod(s) ==
  LET whole == DigitsVal(SubSeq(s, NumStart(s), DigitsEnd(s, NumStart(s)) - 1))
      frac3 == SubSeq(FracDigits(s) \o "000", 1, 3)
      v     == 1000 * whole + DigitsVal(frac3)
  IN IF NumNegative(s) THEN 0 - v ELSE v

\* operator<< of a double under fixed and setprecision(2): rounded to the cent
FixedTwo(price) ==
  LET a     == IF price < 0 THEN 0 - price ELSE price
      cents == (a + 5) \div 10
      c     == cents % 100
  IN (IF price < 0 THEN "-" ELSE "") \o ToString(cents \div 100) \o "."
       \o (IF c < 10 THEN "0" ELSE "") \o ToString(c)

(***************************************************************************)
(* The three entity classes and their toJson, keys in the order written.   *)
(***************************************************************************)
Product(id, name, category, price) ==
  [id |-> id, name |-> name, category |-> category, price |-> price]

User(id, name) == [id |-> id, name |-> name]

Review(uid, pid, r, c) == [user_id |-> uid, product_id |-> pid, rating |-> r, comment |-> c]

ReviewToJson(r) ==
  "{" \o "\"user_id\":" \o ToString(r.user_id) \o ","
      \o "\"product_id\":" \o ToString(r.product_id) \o ","
      \o "\"rating\":" \o ToString(r.rating) \o ","
      \o "\"comment\":\"" \o escapeJsonString(r.comment) \o "\""
      \o "}"

ProductToJson(p) ==
  "{" \o "\"id\":" \o ToString(p.id) \o ","
      \o "\"name\":\"" \o escapeJsonString(p.name) \o "\","
      \o "\"category\":\"" \o escapeJsonString(p.category) \o "\","
      \o "\"price\":" \o FixedTwo(p.price)
      \o "}"

UserToJson(u) ==
  "{" \o "\"id\":" \o ToString(u.id) \o ","
      \o "\"name\":\"" \o escapeJsonString(u.name) \o "\""
      \o "}"

(***************************************************************************)
(* saveData's writeVector: "[", a line per element with a comma after all  *)
(* but the last, "]".                                                      *)
(***************************************************************************)
RECURSIVE WriteLines(_, _)
WriteLines(jsons, i) ==
  IF i > Len(jsons) THEN ""
  ELSE jsons[i] \o (IF i < Len(jsons) THEN "," ELSE "") \o "\n" \o WriteLines(jsons, i + 1)

\* jsons: vec[i].toJson() for each element of the vector
writeVector(jsons) == "[" \o "\n" \o WriteLines(jsons, 1) \o "]"

(***************************************************************************)
(* loadData's parseArray: the text between the outer brackets is cut at    *)
(* every comma met while the brace count is 0 (braces are counted wherever *)
(* they stand, inside a quoted string too); each piece is trimmed, and the *)
(* pieces that are empty or hold no opening brace are dropped.             *)
(***************************************************************************)
\* a variant of the scan that cuts at every comma, whatever the brace count
CutPointsEveryComma(content) == {i \in 1..Len(content) : Ch(content, i) = ","}

\* The positions of the commas at which the scan cuts: bracket_count, the opening
\* braces minus the closing braces scanned so far, is 0 there.
CutPoints(content) ==
  LET marks  == {i \in 1..Len(content) : Ch(content, i) \in {"{", "}", ","}}
      opens  == {i \in marks : Ch(content, i) = "{"}
      closes == {i \in marks : Ch(content, i) = "}"}
  IN {i \in marks : /\ Ch(content, i) = ","
                    /\ Cardinality({j \in opens : j < i}) - Cardinality({j \in closes : j < i}) = 0}

\* the elements of a finite set of integers in increasing order
Ascending(S) ==
  [k \in 1..Cardinality(S) |-> CHOOSE x \in S : Cardinality({y \in S : y < x}) = k - 1]

\* items as pushed by the scan, before trimming
RawItems(content) ==
  LET cuts   == Ascending(CutPoints(content))
      n      == Len(cuts)
      from(k) == IF k = 1 THEN 1 ELSE cuts[k - 1] + 1
      pieces == [k \in 1..n |-> SubSeq(content, from(k), cuts[k] - 1)]
      start  == from(n + 1)
  IN IF start <= Len(content) THEN Append(pieces, SubSeq(content, start, Len(content)))
     ELSE pieces

Trim(item) ==
  LET first == FindFirstNotOf(item, {" ", "\t", "\n", "\r"})
      last  == FindLastNotOf(item, {" ", "\t", "\n", "\r"})
  IN IF first # 0 THEN SubSeq(item, first, last) ELSE ""

KeepItem(item) == ~(item = "" \/ Find(item, "{", 1) = 0)

parseArray(raw_json) ==
  IF Len(raw_json) < 2 \/ Ch(raw_json, 1) # "[" \/ Ch(raw_json, Len(raw_json)) # "]"
  THEN << >>
  ELSE LET content == SubSeq(raw_json, 2, Len(raw_json) - 1)
           items   == RawItems(content)
           trimmed == [k \in 1..Len(items) |-> Trim(items[k])]
       IN SelectSeq(trimmed, KeepItem)

(***************************************************************************)
(* The three loops of loadData.  An element whose stoi or stod throws is   *)
(* skipped (the catch-all swallows it); a missing name, category or        *)
(* comment is the empty string extractJsonValue returns.                   *)
(***************************************************************************)
\* a variant in which the first item that throws ends the loop
BuiltUntilThrow(tried) ==
  LET bad == {k \in 1..Len(tried) : ~tried[k].ok}
      n   == IF bad = {} THEN Len(tried) ELSE Min(bad) - 1
  IN [k \in 1..n |-> tried[k].val]

\* the elements built from the items, in order: an item that throws leaves none
Built(tried) ==
  LET good == SelectSeq(tried, LAMBDA t : t.ok)
  IN [k \in 1..Len(good) |-> good[k].val]

TryProduct(raw_obj) ==
  LET id    == extractJsonValue(raw_obj, "id")
      price == extractJsonValue(raw_obj, "price")
  IN IF StoiOk(id) /\ StodOk(price)
     THEN [ok |-> TRUE,
           val |-> Product(stoi(id), extractJsonValue(raw_obj, "name"),
                           extractJsonValue(raw_obj, "category"), stod(price))]
     ELSE [ok |-> FALSE, val |-> 0]

LoadProducts(text) ==
  LET items == parseArray(text)
  IN Built([k \in 1..Len(items) |-> TryProduct(items[k])])

TryUser(raw_obj) ==
  LET id == extractJsonValue(raw_obj, "id")
  IN IF StoiOk(id)
     THEN [ok |-> TRUE, val |-> User(stoi(id), extractJsonValue(raw_obj, "name"))]
     ELSE [ok |-> FALSE, val |-> 0]

LoadUsers(text) ==
  LET items == parseArray(text)
  IN Built([k \in 1..Len(items) |-> TryUser(items[k])])

TryReview(raw_obj) ==
  LET uid    == extractJsonValue(raw_obj, "user_id")
      pid    == extractJsonValue(raw_obj, "product_id")
      rating == extractJsonValue(raw_obj, "rating")
  IN IF StoiOk(uid) /\ StoiOk(pid) /\ StoiOk(rating)
     THEN [ok |-> TRUE,
           val |-> Review(stoi(uid), stoi(pid), stoi(rating), extractJsonValue(raw_obj, "comment"))]
     ELSE [ok |-> FALSE, val |-> 0]

LoadReviews(text) ==
  LET items == parseArray(text)
  IN Built([k \in 1..Len(items) |-> TryReview(items[k])])

\* variants of the counter update: one counts the records, one leaves the counter alone
NextIdAfterCount(next, vec) == next + Len(vec)

NextIdAfterKeep(next, vec) == next

\* nextProductId / nextUserId after a loop: raised to id + 1 of each element, never lowered
NextIdAfter(next, vec) == IF Len(vec) = 0 THEN next ELSE max(next, Max({vec[k].id : k \in 1..Len(vec)}) + 1)

(***************************************************************************)
(* The in-memory helpers of RecommendationSystem.                          *)
(***************************************************************************)
\* createDefaultData
DefaultProducts ==
  << Product(1000, "Mechanical Keyboard", "Electronics", 99990),
     Product(1001, "Wireless Mouse", "Electronics", 45500),
     Product(1002, "The Silent Patient Book", "Books", 12000),
     Product(1003, "Blue Hoodie", "Apparel", 65000) >>

DefaultUsers == << User(100, "Alice Johnson"), User(101, "Bob Smith") >>

DefaultReviews ==
  << Review(100, 1000, 5, "Excellent keyboard for coding."),
     Review(100, 1001, 4, "Reliable mouse, good battery life."),
     Review(101, 1002, 3, "A decent thriller, a bit slow."),
     Review(101, 1003, 5, "Comfy and warm!") >>

\* findProductById / findUserById return a non-null pointer
HasId(vec, id) == \E k \in 1..Len(vec) : vec[k].id = id

findProductById(products, productId) ==
  products[Min({k \in 1..Len(products) : products[k].id = productId})]

\* variants of hasUserReviewed: one that never finds a review, one that looks at the last only
hasUserReviewedNever(reviews, userId, productId) == FALSE

hasUserReviewedLastOnly(reviews, userId, productId) ==
  /\ Len(reviews) > 0
  /\ reviews[Len(reviews)].user_id = userId
  /\ reviews[Len(reviews)].product_id = productId

hasUserReviewed(reviews, userId, productId) ==
  \E k \in 1..Len(reviews) : reviews[k].user_id = userId /\ reviews[k].product_id = productId

\* the sum of a sequence of integers
RECURSIVE SumSeq(_)
SumSeq(q) == IF Len(q) = 0 THEN 0 ELSE Head(q) + SumSeq(Tail(q))

ReviewsOfProduct(reviews, productId) == SelectSeq(reviews, LAMBDA r : r.product_id = productId)

\* a variant of the average that takes the reviews of every product
calculateAverageRatingOfAll(reviews, productId) ==
  [sum |-> SumSeq([k \in 1..Len(reviews) |-> reviews[k].rating]), count |-> Len(reviews)]

\* a variant of the average without the test of the count
calculateAverageRatingUnguarded(reviews, productId) ==
  LET mine == ReviewsOfProduct(reviews, productId)
  IN [sum |-> SumSeq([k \in 1..Len(mine) |-> mine[k].rating]), count |-> Len(mine)]

\* calculateAverageRating: the quotient sum / count, kept as the pair it divides;
\* 0.0, kept as 0 / 1, when count is 0
calculateAverageRating(reviews, productId) ==
  LET mine == ReviewsOfProduct(reviews, productId)
  IN IF Len(mine) > 0
     THEN [sum |-> SumSeq([k \in 1..Len(mine) |-> mine[k].rating]), count |-> Len(mine)]
     ELSE [sum |-> 0, count |-> 1]

\* a.first > b.first on two averages
AvgGreater(a, b) ==
  a.sum * (IF b.count = 0 THEN 1 ELSE b.count) > b.sum * (IF a.count = 0 THEN 1 ELSE a.count)

\* getReviewedProductIds
getReviewedProductIds(reviews, userId) ==
  LET mine == SelectSeq(reviews, LAMBDA r : r.user_id = userId)
  IN [k \in 1..Len(mine) |-> mine[k].product_id]

(***************************************************************************)
(* State.                                                                  *)
(***************************************************************************)
PRODUCTS_FILE == "products.json"
USERS_FILE == "users.json"
REVIEWS_FILE == "reviews.json"
FILES == {PRODUCTS_FILE, USERS_FILE, REVIEWS_FILE}

\* the processes that may run a command at the same time
Procs == {1, 2}

VARIABLES
  disk,      \* disk[f]: whether file f exists, and its text
  written,   \* written[f]: the vector the last writeVector of f was given
  view,      \* view[f]: the vector loadData builds from the text of f
  proc,      \* proc[p]: the command process p runs, where it stands, its members
  opsLeft,   \* the commands that may still be started
  log        \* the successful add and delete commands, in the order they returned

vars == << disk, written, view, proc, opsLeft, log >>

NoFile == [exists |-> FALSE, text |-> ""]

\* loadData's readAll: a file that cannot be opened or is empty reads as "[]"
readAll(file) ==
  IF ~file.exists THEN "[]"
  ELSE IF file.text = "" THEN "[]"
  ELSE file.text

NoCmd ==
  [op |-> "none", name |-> "", category |-> "", price |-> 0,
   userId |-> 0, productId |-> 0, rating |-> 0, comment |-> ""]

NoResult ==
  [status |-> "none", message |-> "", id |-> 0, avg |-> [sum |-> 0, count |-> 0],
   target_category |-> "", list |-> << >>]

Success(message, id) == [NoResult EXCEPT !.status = "success", !.message = message, !.id = id]

Error(message) == [NoResult EXCEPT !.status = "error", !.message = message]

NoSnapshot == [products |-> << >>, users |-> << >>, reviews |-> << >>]

\* a process that runs no command: the members of a new RecommendationSystem
NewProc ==
  [pc |-> "idle", cmd |-> NoCmd,
   products |-> << >>, users |-> << >>, reviews |-> << >>,
   nextProductId |-> 1000, nextUserId |-> 100, data_loaded |-> FALSE,
   result |-> NoResult,
   before |-> [f \in FILES |-> NoFile],   \* the files when the command started
   loaded |-> NoSnapshot,                 \* the vectors once loadData returned
   cerr |-> << >>,                        \* the files that saveData failed to open
   opened |-> FALSE]                      \* an ofstream of writeVector is open

EmptyDisk == [f \in FILES |-> NoFile]

\* toJson of each element of the vector that goes to file f
ToJsons(f, vec) ==
  [k \in 1..Len(vec) |->
     CASE f = PRODUCTS_FILE -> ProductToJson(vec[k])
       [] f = USERS_FILE -> UserToJson(vec[k])
       [] OTHER -> ReviewToJson(vec[k])]

FileOf(f, vec) == [exists |-> TRUE, text |-> writeVector(ToJsons(f, vec))]

\* the files as the first loadData of the fuller variant leaves them
SeededDisk ==
  [f \in FILES |->
     IF f = PRODUCTS_FILE THEN FileOf(f, DefaultProducts)
     ELSE IF f = USERS_FILE THEN FileOf(f, DefaultUsers)
     ELSE FileOf(f, DefaultReviews)]

\* what the loops of loadData build from the text of file f
LoadFile(f, text) ==
  CASE f = PRODUCTS_FILE -> LoadProducts(text)
    [] f = USERS_FILE -> LoadUsers(text)
    [] OTHER -> LoadReviews(text)

\* the three vectors a loadData of the files d builds
Stored(d) == [f \in FILES |-> LoadFile(f, readAll(d[f]))]

(***************************************************************************)
(* A command: main() builds a RecommendationSystem and calls one method.   *)
(***************************************************************************)
Idle(p) == proc[p].pc = "idle"

\* Process p starts command c.  With alone, no other command is under way.
Begin(p, cmds, alone) ==
  /\ opsLeft > 0
  /\ Idle(p)
  /\ alone => \A q \in Procs \ {p} : Idle(q)
  /\ \E c \in cmds :
       proc' = [proc EXCEPT ![p] = [NewProc EXCEPT !.pc = "loadProducts", !.cmd = c, !.before = disk]]
  /\ opsLeft' = opsLeft - 1
  /\ UNCHANGED << disk, written, view, log >>

(***************************************************************************)
(* loadData.  The three files are opened and read one after the other.     *)
(***************************************************************************)
loadData_products(p) ==
  /\ proc[p].pc = "loadProducts"
  /\ LET products == LoadProducts(readAll(disk[PRODUCTS_FILE]))
     IN proc' = [proc EXCEPT ![p].products = products,
                             ![p].nextProductId = NextIdAfter(@, products),
                             ![p].data_loaded = @ \/ Len(products) > 0,
                             ![p].pc = "loadUsers"]
  /\ UNCHANGED << disk, written, view, opsLeft, log >>

\* a variant of the second loop that leaves data_loaded as it was
loadData_usersUnflagged(p) ==
  /\ proc[p].pc = "loadUsers"
  /\ LET users == LoadUsers(readAll(disk[USERS_FILE]))
     IN proc' = [proc EXCEPT ![p].users = users,
                             ![p].nextUserId = NextIdAfter(@, users),
                             ![p].pc = "loadReviews"]
  /\ UNCHANGED << disk, written, view, opsLeft, log >>

loadData_users(p) ==
  /\ proc[p].pc = "loadUsers"
  /\ LET users == LoadUsers(readAll(disk[USERS_FILE]))
     IN proc' = [proc EXCEPT ![p].users = users,
                             ![p].nextUserId = NextIdAfter(@, users),
                             ![p].data_loaded = @ \/ Len(users) > 0,
                             ![p].pc = "loadReviews"]
  /\ UNCHANGED << disk, written, view, opsLeft, log >>

\* The last loop, then, in the fuller variant (seeds), createDefaultData and
\* saveData when nothing at all was loaded.
loadData_reviews(p, seeds) ==
  /\ proc[p].pc = "loadReviews"
  /\ LET reviews == LoadReviews(readAll(disk[REVIEWS_FILE]))
         data_loaded == proc[p].data_loaded \/ Len(reviews) > 0
     IN IF seeds /\ ~data_loaded
        THEN proc' = [proc EXCEPT ![p].products = DefaultProducts,
                                  ![p].nextProductId = 1004,
                                  ![p].users = DefaultUsers,
                                  ![p].nextUserId = 102,
                                  ![p].reviews = DefaultReviews,
                                  ![p].loaded = [products |-> DefaultProducts, users |-> DefaultUsers,
                                                 reviews |-> DefaultReviews],
                                  ![p].pc = "seedProducts"]
        ELSE proc' = [proc EXCEPT ![p].reviews = reviews,
                                  ![p].data_loaded = data_loaded,
                                  ![p].loaded = [products |-> proc[p].products, users |-> proc[p].users,
                                                 reviews |-> reviews],
                                  ![p].pc = "run"]
  /\ UNCHANGED << disk, written, view, opsLeft, log >>

(***************************************************************************)
(* saveData: three writeVector calls, each truncating and rewriting one    *)
(* file.  A command returns after the last one.                            *)
(***************************************************************************)
\* what a finished command adds to the log
LogAfter(c, r) ==
  IF r.status = "success" /\ c.op \in {"addProduct", "addUser", "deleteProduct", "deleteUser"}
  THEN Append(log, [op |-> c.op, id |-> r.id])
  ELSE log

\* a variant of the write that keeps the elements on file that the vector lacks
VectorOfMerged(p, f) ==
  LET own == CASE f = PRODUCTS_FILE -> proc[p].products
               [] f = USERS_FILE -> proc[p].users
               [] OTHER -> proc[p].reviews
  IN own \o SelectSeq(written[f], LAMBDA x : \A k \in 1..Len(own) : own[k] # x)

\* the vector saveData hands to writeVector for file f
VectorOf(p, f) ==
  CASE f = PRODUCTS_FILE -> proc[p].products
    [] f = USERS_FILE -> proc[p].users
    [] OTHER -> proc[p].reviews

\* the file a step of saveData writes, and where the process goes next
FileAt(pc) ==
  CASE pc \in {"seedProducts", "saveProducts"} -> PRODUCTS_FILE
    [] pc \in {"seedUsers", "saveUsers"} -> USERS_FILE
    [] OTHER -> REVIEWS_FILE

PcAfter(pc) ==
  CASE pc = "seedProducts" -> "seedUsers"
    [] pc = "seedUsers" -> "seedReviews"
    [] pc = "seedReviews" -> "run"
    [] pc = "saveProducts" -> "saveUsers"
    [] pc = "saveUsers" -> "saveReviews"
    [] OTHER -> "done"

SavePcs == {"seedProducts", "seedUsers", "seedReviews", "saveProducts", "saveUsers", "saveReviews"}

saveData(p) ==
  /\ proc[p].pc \in SavePcs
  /\ LET f   == FileAt(proc[p].pc)
         vec == VectorOf(p, f)
         txt == writeVector(ToJsons(f, vec))
         nxt == PcAfter(proc[p].pc)
     IN /\ disk' = [disk EXCEPT ![f] = [exists |-> TRUE, text |-> txt]]
        /\ written' = [written EXCEPT ![f] = vec]
        /\ view' = [view EXCEPT ![f] = LoadFile(f, txt)]
        /\ proc' = [proc EXCEPT ![p].pc = nxt]
        /\ log' = IF nxt = "done" THEN LogAfter(proc[p].cmd, proc[p].result) ELSE log
  /\ UNCHANGED opsLeft

\* writeVector when the ofstream does not open: the file stays as it is, a line
\* goes to cerr, and saveData goes on to the next file
saveData_failed(p) ==
  /\ proc[p].pc \in SavePcs
  /\ LET nxt == PcAfter(proc[p].pc)
     IN /\ proc' = [proc EXCEPT ![p].pc = nxt, ![p].cerr = Append(@, FileAt(proc[p].pc))]
        /\ log' = IF nxt = "done" THEN LogAfter(proc[p].cmd, proc[p].result) ELSE log
  /\ UNCHANGED << disk, written, view, opsLeft >>

\* writeVector seen in two steps, for processes that write the same file at the
\* same time.  First the constructor of the ofstream: the file is created or
\* cut to no bytes, and the stream stands at its first byte.
writeVector_open(p) ==
  /\ proc[p].pc \in SavePcs
  /\ ~proc[p].opened
  /\ LET f == FileAt(proc[p].pc)
     IN /\ disk' = [disk EXCEPT ![f] = [exists |-> TRUE, text |-> ""]]
        /\ view' = [view EXCEPT ![f] = LoadFile(f, "")]
        /\ proc' = [proc EXCEPT ![p].opened = TRUE]
  /\ UNCHANGED << written, opsLeft, log >>

\* Then the lines and the close, taken together: the text goes to the first
\* bytes of the file; bytes that another process wrote beyond them since the
\* file was cut stay where they are.
writeVector_write(p) ==
  /\ proc[p].pc \in SavePcs
  /\ proc[p].opened
  /\ LET f   == FileAt(proc[p].pc)
         vec == VectorOf(p, f)
         txt == writeVector(ToJsons(f, vec))
         old == disk[f].text
         all == txt \o SubSeq(old, Len(txt) + 1, Len(old))
         nxt == PcAfter(proc[p].pc)
     IN /\ disk' = [disk EXCEPT ![f] = [exists |-> TRUE, text |-> all]]
        /\ written' = [written EXCEPT ![f] = vec]
        /\ view' = [view EXCEPT ![f] = LoadFile(f, all)]
        /\ proc' = [proc EXCEPT ![p].pc = nxt, ![p].opened = FALSE]
        /\ log' = IF nxt = "done" THEN LogAfter(proc[p].cmd, proc[p].result) ELSE log
  /\ UNCHANGED opsLeft

\* the method changed its vectors as in m and calls saveData; it will return r
Save(p, m, r) ==
  /\ proc' = [proc EXCEPT ![p] = [m EXCEPT !.result = r, !.pc = "saveProducts"]]
  /\ UNCHANGED << disk, written, view, opsLeft, log >>

\* a variant of the return that saves first
ReturnSaving(p, r) == Save(p, proc[p], r)

\* the method returns r without saving
Return(p, r) ==
  /\ proc' = [proc EXCEPT ![p].result = r, ![p].pc = "done"]
  /\ log' = LogAfter(proc[p].cmd, r)
  /\ UNCHANGED << disk, written, view, opsLeft >>

Running(p, op) == proc[p].pc = "run" /\ proc[p].cmd.op = op

(***************************************************************************)
(* The read operations.                                                    *)
(***************************************************************************)
getProductsJson(p) ==
  /\ Running(p, "getProducts")
  /\ Return(p, [Success("", 0) EXCEPT !.list =
                  [k \in 1..Len(proc[p].products) |->
                     [product |-> proc[p].products[k],
                      avg_rating |-> calculateAverageRating(proc[p].reviews, proc[p].products[k].id),
                      reviews_count |-> Len(ReviewsOfProduct(proc[p].reviews, proc[p].products[k].id))]]])

getUsersJson(p) ==
  /\ Running(p, "getUsers")
  /\ Return(p, [Success("", 0) EXCEPT !.list = proc[p].users])

getReviewsJson(p) ==
  /\ Running(p, "getReviews")
  /\ Return(p, [Success("", proc[p].cmd.productId) EXCEPT
                  !.list = ReviewsOfProduct(proc[p].reviews, proc[p].cmd.productId)])

\* a variant of the purchase that records it as a review and saves
purchaseProductRecording(p) ==
  /\ Running(p, "purchase")
  /\ IF ~HasId(proc[p].users, proc[p].cmd.userId) THEN Return(p, Error("User not found."))
     ELSE IF ~HasId(proc[p].products, proc[p].cmd.productId) THEN Return(p, Error("Product not found."))
     ELSE Save(p, [proc[p] EXCEPT !.reviews = Append(@, Review(proc[p].cmd.userId, proc[p].cmd.productId,
                                                                5, "purchased"))],
               Success("Purchase recorded (no dedicated purchase history storage in this C++ version).", 0))

purchaseProduct(p) ==
  /\ Running(p, "purchase")
  /\ IF ~HasId(proc[p].users, proc[p].cmd.userId) THEN Return(p, Error("User not found."))
     ELSE IF ~HasId(proc[p].products, proc[p].cmd.productId) THEN Return(p, Error("Product not found."))
     ELSE Return(p, Success("Purchase recorded (no dedicated purchase history storage in this C++ version).", 0))

(***************************************************************************)
(* The create and delete operations.                                       *)
(***************************************************************************)
addUser(p) ==
  /\ Running(p, "addUser")
  /\ LET newId == proc[p].nextUserId
     IN Save(p, [proc[p] EXCEPT !.nextUserId = newId + 1,
                                !.users = Append(@, User(newId, proc[p].cmd.name))],
             Success("User added successfully.", newId))

addProduct(p) ==
  /\ Running(p, "addProduct")
  /\ LET newId == proc[p].nextProductId
     IN Save(p, [proc[p] EXCEPT !.nextProductId = newId + 1,
                                !.products = Append(@, Product(newId, proc[p].cmd.name,
                                                               proc[p].cmd.category, proc[p].cmd.price))],
             Success("Product added successfully.", newId))

\* a variant of the test of the rating that lets 0 through
InvalidRatingLoose(rating) == rating < 0 \/ rating > 5

\* addReview's test of the rating
InvalidRating(rating) == rating < 1 \/ rating > 5

\* a variant of addReview's body that looks for the pair before it checks the rating
AddReviewBodyDuplicateFirst(p, userId, productId, rating, comment) ==
  IF ~HasId(proc[p].users, userId) THEN Return(p, Error("User not found."))
  ELSE IF ~HasId(proc[p].products, productId) THEN Return(p, Error("Product not found."))
  ELSE IF hasUserReviewed(proc[p].reviews, userId, productId)
       THEN Return(p, Error("User has already reviewed this product."))
  ELSE IF rating < 1 \/ rating > 5 THEN Return(p, Error("Invalid rating (1-5)."))
  ELSE Save(p, [proc[p] EXCEPT !.reviews = Append(@, Review(userId, productId, rating, comment))],
            Success("Review added.", productId))

\* the body of addReview, which rateProduct calls with a fixed comment
AddReviewBody(p, userId, productId, rating, comment) ==
  IF ~HasId(proc[p].users, userId) THEN Return(p, Error("User not found."))
  ELSE IF ~HasId(proc[p].products, productId) THEN Return(p, Error("Product not found."))
  ELSE IF InvalidRating(rating) THEN Return(p, Error("Invalid rating (1-5)."))
  ELSE IF hasUserReviewed(proc[p].reviews, userId, productId)
       THEN Return(p, Error("User has already reviewed this product."))
  ELSE LET reviews == Append(proc[p].reviews, Review(userId, productId, rating, comment))
       IN Save(p, [proc[p] EXCEPT !.reviews = reviews],
               [Success("Review added.", productId) EXCEPT
                  !.avg = calculateAverageRating(reviews, productId)])

addReview(p) ==
  /\ Running(p, "addReview")
  /\ AddReviewBody(p, proc[p].cmd.userId, proc[p].cmd.productId, proc[p].cmd.rating, proc[p].cmd.comment)

rateProduct(p) ==
  /\ Running(p, "rate")
  /\ AddReviewBody(p, proc[p].cmd.userId, proc[p].cmd.productId, proc[p].cmd.rating, "No comment provided.")

\* vector::erase of the first element with the id
EraseById(vec, id) ==
  LET it == Min({k \in 1..Len(vec) : vec[k].id = id})
  IN SubSeq(vec, 1, it - 1) \o SubSeq(vec, it + 1, Len(vec))

\* a variant of the cascade that removes no review
KeepReviewsOfUser(reviews, userId) == reviews

\* the remove_if / erase over the reviews in deleteUser and in deleteProduct
RemoveReviewsOfUser(reviews, userId) == SelectSeq(reviews, LAMBDA r : r.user_id # userId)

\* a variant of the cascade of deleteProduct that removes no review
KeepReviewsOfProduct(reviews, productId) == reviews

RemoveReviewsOfProduct(reviews, productId) == SelectSeq(reviews, LAMBDA r : r.product_id # productId)

deleteUser(p) ==
  /\ Running(p, "deleteUser")
  /\ LET userId == proc[p].cmd.userId
     IN IF ~HasId(proc[p].users, userId) THEN Return(p, Error("User not found."))
        ELSE Save(p, [proc[p] EXCEPT !.users = EraseById(@, userId),
                                     !.reviews = RemoveReviewsOfUser(@, userId)],
                  Success("User deleted successfully.", userId))

deleteProduct(p) ==
  /\ Running(p, "deleteProduct")
  /\ LET productId == proc[p].cmd.productId
     IN IF ~HasId(proc[p].products, productId) THEN Return(p, Error("Product not found."))
        ELSE Save(p, [proc[p] EXCEPT !.products = EraseById(@, productId),
                                     !.reviews = RemoveReviewsOfProduct(@, productId)],
                  Success("Product deleted successfully.", productId))

(***************************************************************************)
(* getRecommendationsJson.  std::sort leaves the order of candidates with  *)
(* equal averages open: every descending order is an outcome.              *)
(***************************************************************************)
\* a variant of the choice of the product that gives the category: the first id
FirstReviewedId(reviewedIds) == reviewedIds[1]

\* reviewedIds.back()
LastReviewedId(reviewedIds) == reviewedIds[Len(reviewedIds)]

\* a variant of the early returns that looks at the history before the user
RecommendErrorHistoryFirst(users, products, reviewedIds, userId) ==
  IF Len(reviewedIds) = 0 THEN "User has no review history for recommendations."
  ELSE IF ~HasId(users, userId) THEN "User not found."
  ELSE IF ~HasId(products, LastReviewedId(reviewedIds))
       THEN "Internal data error: Last reviewed product missing."
  ELSE ""

\* the message of the early return that getRecommendationsJson takes, "" if none
RecommendError(users, products, reviewedIds, userId) ==
  IF ~HasId(users, userId) THEN "User not found."
  ELSE IF Len(reviewedIds) = 0 THEN "User has no review history for recommendations."
  ELSE IF ~HasId(products, LastReviewedId(reviewedIds))
       THEN "Internal data error: Last reviewed product missing."
  ELSE ""

\* a variant of the filter that does not look at what the user reviewed
CandidatesOfCategory(products, reviews, userId, targetCategory) ==
  LET keep == SelectSeq(products, LAMBDA x : x.category = targetCategory)
  IN [k \in 1..Len(keep) |->
        [product |-> keep[k],
         avg_rating |-> calculateAverageRating(reviews, keep[k].id),
         reviews_count |-> Len(ReviewsOfProduct(reviews, keep[k].id))]]

Candidates(products, reviews, userId, targetCategory) ==
  LET keep == SelectSeq(products, LAMBDA x : /\ x.category = targetCategory
                                             /\ ~hasUserReviewed(reviews, userId, x.id))
  IN [k \in 1..Len(keep) |->
        [product |-> keep[k],
         avg_rating |-> calculateAverageRating(reviews, keep[k].id),
         reviews_count |-> Len(ReviewsOfProduct(reviews, keep[k].id))]]

SortOutcomes(candidates) ==
  LET n == Len(candidates)
      orders == {f \in Permutations(1..n) :
                   \A i, j \in 1..n : i < j => ~AvgGreater(candidates[f[j]].avg_rating, candidates[f[i]].avg_rating)}
  IN {[k \in 1..n |-> candidates[f[k]]] : f \in orders}

TopThree(sorted) == SubSeq(sorted, 1, IF Len(sorted) < 3 THEN Len(sorted) ELSE 3)

\* a variant of the return on an empty candidate list that reports an error
NoCandidatesError(userId, targetCategory) ==
  Error("No new recommendations available in category " \o targetCategory \o ".")

\* the return on an empty candidate list
NoCandidates(userId, targetCategory) ==
  Success("No new recommendations available in category " \o targetCategory \o ".", userId)

getRecommendationsJson(p) ==
  /\ Running(p, "recommend")
  /\ LET userId == proc[p].cmd.userId
         reviewedIds == getReviewedProductIds(proc[p].reviews, userId)
         error == RecommendError(proc[p].users, proc[p].products, reviewedIds, userId)
     IN IF error # "" THEN Return(p, Error(error))
        ELSE LET targetCategory == findProductById(proc[p].products, LastReviewedId(reviewedIds)).category
                 candidates == Candidates(proc[p].products, proc[p].reviews, userId, targetCategory)
             IN IF Len(candidates) = 0
                THEN Return(p, NoCandidates(userId, targetCategory))
                ELSE \E sorted \in SortOutcomes(candidates) :
                       Return(p, [Success("", userId) EXCEPT !.target_category = targetCategory,
                                                             !.list = TopThree(sorted)])

\* main returns: the process ends
Exit(p) ==
  /\ proc[p].pc = "done"
  /\ proc' = [proc EXCEPT ![p] = NewProc]
  /\ UNCHANGED << disk, written, view, opsLeft, log >>

(***************************************************************************)
(* The command lines the runs draw from.                                   *)
(***************************************************************************)
Cmd(op) == [NoCmd EXCEPT !.op = op]

AddUserCmd(name) == [Cmd("addUser") EXCEPT !.name = name]

AddProductCmd(name, category, price) ==
  [Cmd("addProduct") EXCEPT !.name = name, !.category = category, !.price = price]

AddReviewCmd(userId, productId, rating, comment) ==
  [Cmd("addReview") EXCEPT !.userId = userId, !.productId = productId, !.rating = rating, !.comment = comment]

RateCmd(userId, productId, rating) ==
  [Cmd("rate") EXCEPT !.userId = userId, !.productId = productId, !.rating = rating]

PurchaseCmd(userId, productId) == [Cmd("purchase") EXCEPT !.userId = userId, !.productId = productId]

DeleteUserCmd(userId) == [Cmd("deleteUser") EXCEPT !.userId = userId]

DeleteProductCmd(productId) == [Cmd("deleteProduct") EXCEPT !.productId = productId]

RecommendCmd(userId) == [Cmd("recommend") EXCEPT !.userId = userId]

GetReviewsCmd(productId) == [Cmd("getReviews") EXCEPT !.productId = productId]

\* names and comments: plain, with a quote, with a closing brace
Names == {"Al", "a\"b", "}"}
Comments == {"ok", "}"}
Ratings == {0, 1, 5, 6}

AllCommands ==
  {Cmd("getProducts")}
  \cup {AddUserCmd(n) : n \in Names}
  \cup {AddProductCmd("Pen", "Books", 1250), AddProductCmd("}", "Books", 1250)}
  \cup {RateCmd(103, 1009, 0), RateCmd(103, 1000, 5), RateCmd(100, 1009, 6), RateCmd(100, 1009, 5)}
  \cup {RateCmd(100, x, r) : x \in {1000, 1002}, r \in Ratings}
  \cup {AddReviewCmd(100, 1002, 4, c) : c \in Comments}
  \cup {AddReviewCmd(101, 1000, 2, "ok")}
  \cup {DeleteUserCmd(u) : u \in {100, 102}}
  \cup {DeleteProductCmd(x) : x \in {1000, 1004}}
  \cup {RecommendCmd(u) : u \in {100, 103}}

\* the commands of the runs in which two processes overlap
OverlapCommands == {AddReviewCmd(100, 1002, 4, "}"), RateCmd(100, 1002, 5), DeleteUserCmd(100)}

\* the commands of the runs that follow the ids
IdCommands ==
  {AddUserCmd("Al"), AddProductCmd("Pen", "Books", 1250),
   DeleteUserCmd(102), DeleteProductCmd(1000), DeleteProductCmd(1004)}

\* how many commands a run starts
MaxOps == 3
MaxOverlapOps == 2
MaxIdOps == 4

\* the commands of the runs in which a file may fail to open for writing
IoCommands == {AddUserCmd("Al"), RateCmd(100, 1002, 5), RateCmd(100, 1000, 5), DeleteUserCmd(100)}

MaxIoOps == 2

\* a store with four more books, a user without reviews, and two more reviews
RecProducts ==
  DefaultProducts \o << Product(1004, "Pen", "Books", 1250), Product(1005, "Ink", "Books", 1250),
                        Product(1006, "Pad", "Books", 1250), Product(1007, "Map", "Books", 1250) >>

RecUsers == DefaultUsers \o << User(102, "Al") >>

RecReviews == DefaultReviews \o << Review(101, 1005, 4, "ok"), Review(101, 1006, 4, "ok") >>

RecDisk ==
  [f \in FILES |->
     IF f = PRODUCTS_FILE THEN FileOf(f, RecProducts)
     ELSE IF f = USERS_FILE THEN FileOf(f, RecUsers)
     ELSE FileOf(f, RecReviews)]

\* the commands of the runs that ask for recommendations
RecCommands ==
  {RateCmd(100, 1002, 5), RateCmd(100, 1004, 2), RateCmd(101, 1000, 4), RateCmd(102, 1000, 5)}
  \cup {RecommendCmd(u) : u \in {100, 101, 102, 103}}

MaxRecOps == 3

(***************************************************************************)
(* The specifications.                                                     *)
(***************************************************************************)
\* a store from which every product, or every user, has been deleted
NoProductsDisk ==
  [SeededDisk EXCEPT ![PRODUCTS_FILE] = FileOf(PRODUCTS_FILE, << >>),
                     ![REVIEWS_FILE] = FileOf(REVIEWS_FILE, << >>)]

NoUsersDisk ==
  [SeededDisk EXCEPT ![USERS_FILE] = FileOf(USERS_FILE, << >>),
                     ![REVIEWS_FILE] = FileOf(REVIEWS_FILE, << >>)]

InitWith(disks, n) ==
  /\ disk \in disks
  /\ written = Stored(disk)
  /\ view = Stored(disk)
  /\ proc = [p \in Procs |-> NewProc]
  /\ opsLeft = n
  /\ log = << >>

\* two processes, their steps interleaved
Init == InitWith({EmptyDisk, SeededDisk}, MaxOverlapOps)

\* the processes are alike: the first command is started by process 1
Next ==
  \E p \in Procs :
    \/ (p = 1 \/ opsLeft < MaxOverlapOps) /\ Begin(p, OverlapCommands, FALSE)
    \/ loadData_products(p)
    \/ loadData_users(p)
    \/ loadData_reviews(p, TRUE)
    \/ saveData(p)
    \/ addReview(p)
    \/ rateProduct(p)
    \/ deleteUser(p)
    \/ Exit(p)

Spec == Init /\ [][Next]_vars

\* one process at a time, every command
InitSeq == InitWith({EmptyDisk, SeededDisk, NoProductsDisk, NoUsersDisk}, MaxOps)

NextSeq ==
  \/ Begin(1, AllCommands, TRUE)
  \/ loadData_products(1)
  \/ loadData_users(1)
  \/ loadData_reviews(1, TRUE)
  \/ saveData(1)
  \/ getProductsJson(1)
  \/ addUser(1)
  \/ addProduct(1)
  \/ addReview(1)
  \/ rateProduct(1)
  \/ deleteUser(1)
  \/ deleteProduct(1)
  \/ getRecommendationsJson(1)
  \/ Exit(1)

SpecSeq == InitSeq /\ [][NextSeq]_vars

\* one process at a time, from the empty store, the commands that add and delete
InitIds == InitWith({EmptyDisk}, MaxIdOps)

NextIds ==
  \/ Begin(1, IdCommands, TRUE)
  \/ loadData_products(1)
  \/ loadData_users(1)
  \/ loadData_reviews(1, TRUE)
  \/ saveData(1)
  \/ addUser(1)
  \/ addProduct(1)
  \/ deleteUser(1)
  \/ deleteProduct(1)
  \/ Exit(1)

SpecIds == InitIds /\ [][NextIds]_vars

\* one process at a time, on the default data; every write may fail to open its file
InitIO == InitWith({SeededDisk}, MaxIoOps)

NextIO ==
  \/ Begin(1, IoCommands, TRUE)
  \/ loadData_products(1)
  \/ loadData_users(1)
  \/ loadData_reviews(1, TRUE)
  \/ saveData(1)
  \/ saveData_failed(1)
  \/ addUser(1)
  \/ rateProduct(1)
  \/ deleteUser(1)
  \/ Exit(1)

SpecIO == InitIO /\ [][NextIO]_vars

\* one process at a time: reviews and recommendations
InitRec == InitWith({SeededDisk, RecDisk}, MaxRecOps)

NextRec ==
  \/ Begin(1, RecCommands, TRUE)
  \/ loadData_products(1)
  \/ loadData_users(1)
  \/ loadData_reviews(1, TRUE)
  \/ saveData(1)
  \/ rateProduct(1)
  \/ getRecommendationsJson(1)
  \/ Exit(1)

SpecRec == InitRec /\ [][NextRec]_vars

MaxQueryOps == 3

\* the commands that only read, and the deletions that empty a store
QueryCommands ==
  {Cmd("getProducts"), Cmd("getUsers"), GetReviewsCmd(1000), PurchaseCmd(100, 1000), PurchaseCmd(103, 1000),
   RecommendCmd(100), RecommendCmd(103), DeleteUserCmd(100), DeleteUserCmd(101)}

\* one process at a time, on stores with and without data
NextQuery ==
  \/ Begin(1, QueryCommands, TRUE)
  \/ loadData_products(1)
  \/ loadData_users(1)
  \/ loadData_reviews(1, TRUE)
  \/ saveData(1)
  \/ getProductsJson(1)
  \/ getUsersJson(1)
  \/ getReviewsJson(1)
  \/ purchaseProduct(1)
  \/ getRecommendationsJson(1)
  \/ deleteUser(1)
  \/ Exit(1)

SpecQuery == InitWith({EmptyDisk, SeededDisk, NoProductsDisk}, MaxQueryOps) /\ [][NextQuery]_vars

MaxTornOps == 2

\* commands that add and remove ids; the product has a price below zero
TornCommands == {AddUserCmd("Zed"), DeleteUserCmd(100), AddProductCmd("Pen", "Books", 0 - 1250)}

\* two processes whose writes of one file overlap; the store is the seeded one,
\* as it is or after --add-user "Carol Smith" and an --add-review of user 101
NextTorn ==
  \E p \in Procs :
    \/ (p = 1 \/ opsLeft < MaxTornOps) /\ Begin(p, TornCommands, FALSE)
    \/ loadData_products(p)
    \/ loadData_users(p)
    \/ loadData_reviews(p, TRUE)
    \/ writeVector_open(p)
    \/ writeVector_write(p)
    \/ addUser(p)
    \/ addProduct(p)
    \/ deleteUser(p)
    \/ Exit(p)

SpecTorn ==
  /\ InitWith({SeededDisk,
               [SeededDisk EXCEPT
                  ![USERS_FILE] = FileOf(USERS_FILE, Append(DefaultUsers, User(102, "Carol Smith"))),
                  ![REVIEWS_FILE] =
                     FileOf(REVIEWS_FILE,
                            Append(DefaultReviews,
                                   Review(101, 1000, 4, "Bought it after Alice praised it: no regrets at")))]},
              MaxTornOps)
  /\ [][NextTorn]_vars

MaxDelOps == 3

\* reviews of user 100, one of them with a closing brace, deletions of the
\* products that user has reviewed, and the recommendation for that user
DelCommands ==
  {RateCmd(100, 1002, 5), AddReviewCmd(100, 1003, 4, "}"), AddProductCmd("{", "Books", 1250),
   DeleteProductCmd(1001), DeleteProductCmd(1002), DeleteProductCmd(1003), RecommendCmd(100)}

\* one process at a time: reviews, deletions of products, recommendations
NextDel ==
  \/ Begin(1, DelCommands, TRUE)
  \/ loadData_products(1)
  \/ loadData_users(1)
  \/ loadData_reviews(1, TRUE)
  \/ saveData(1)
  \/ rateProduct(1)
  \/ addReview(1)
  \/ addProduct(1)
  \/ deleteProduct(1)
  \/ getRecommendationsJson(1)
  \/ Exit(1)

SpecDel == InitWith({EmptyDisk, SeededDisk}, MaxDelOps) /\ [][NextDel]_vars

MaxParseOps == 2

\* Fragments of a file as loadData may find them, written by hand: each with its
\* kind and with the element a well-formed fragment stands for.  An undecodable
\* fragment has a numeric field that stoi or stod rejects; in the others a
\* numeric field, or a textual field, is absent.
Fragments(f) ==
  CASE f = PRODUCTS_FILE ->
      {[json |-> "{\"id\":1000,\"name\":\"Pen\",\"category\":\"Books\",\"price\":1.25}",
        kind |-> "good", vals |-> << Product(1000, "Pen", "Books", 1250) >>],
       [json |-> "{\"id\":1004,\"name\":\"Map\",\"category\":\"Books\",\"price\":4.00}",
        kind |-> "good", vals |-> << Product(1004, "Map", "Books", 4000) >>],
       [json |-> "{\"id\":1001,\"name\":\"Ink\",\"category\":\"Books\",\"price\":free}",
        kind |-> "undecodable", vals |-> << >>],
       [json |-> "{\"id\":1002,\"name\":\"Pad\",\"category\":\"Books\"}",
        kind |-> "number missing", vals |-> << >>],
       [json |-> "{\"id\":1003,\"category\":\"Books\",\"price\":3.00}",
        kind |-> "text missing", vals |-> << >>]}
    [] f = USERS_FILE ->
      {[json |-> "{\"id\":100,\"name\":\"Al\"}",
        kind |-> "good", vals |-> << User(100, "Al") >>],
       [json |-> "{\"id\":101,\"name\":\"Bo\"}",
        kind |-> "good", vals |-> << User(101, "Bo") >>],
       [json |-> "{\"id\":one,\"name\":\"Cy\"}",
        kind |-> "undecodable", vals |-> << >>],
       [json |-> "{\"name\":\"Di\"}",
        kind |-> "number missing", vals |-> << >>],
       [json |-> "{\"id\":104}",
        kind |-> "text missing", vals |-> << >>]}
    [] OTHER ->
      {[json |-> "{\"user_id\":100,\"product_id\":1000,\"rating\":5,\"comment\":\"ok\"}",
        kind |-> "good", vals |-> << Review(100, 1000, 5, "ok") >>],
       [json |-> "{\"user_id\":101,\"product_id\":1000,\"rating\":4,\"comment\":\"fine\"}",
        kind |-> "good", vals |-> << Review(101, 1000, 4, "fine") >>],
       [json |-> "{\"user_id\":100,\"product_id\":1004,\"rating\":high,\"comment\":\"ok\"}",
        kind |-> "undecodable", vals |-> << >>],
       [json |-> "{\"user_id\":101,\"product_id\":1004,\"comment\":\"ok\"}",
        kind |-> "number missing", vals |-> << >>],
       [json |-> "{\"user_id\":101,\"product_id\":1004,\"rating\":3}",
        kind |-> "text missing", vals |-> << >>]}

\* the seeded store with one file replaced by two fragments
FragmentDisks ==
  UNION {{[SeededDisk EXCEPT ![f] = [exists |-> TRUE, text |-> writeVector(<< x.json, y.json >>)]] :
            x, y \in Fragments(f)} : f \in FILES}

\* comments with a comma, with braces that cancel, with braces that do not, and
\* with a comma behind a closing brace
OddComments == {"a, b", "a, {b}", "}{", "a}b", "{a", "},{"}

ParseCommands ==
  {Cmd("getProducts"), AddReviewCmd(101, 1000, 2, "ok")} \cup {AddReviewCmd(100, 1002, 4, c) : c \in OddComments}

\* one process at a time, on files with fragments of every kind
NextParse ==
  \/ Begin(1, ParseCommands, TRUE)
  \/ loadData_products(1)
  \/ loadData_users(1)
  \/ loadData_reviews(1, TRUE)
  \/ saveData(1)
  \/ getProductsJson(1)
  \/ addReview(1)
  \/ Exit(1)

SpecParse == InitWith({SeededDisk} \cup FragmentDisks, MaxParseOps) /\ [][NextParse]_vars

\* strings for the name, category and comment of a record: plain, with a double
\* quote, with a backslash, with a newline
CodecStrings == {"Al", "a\"b", "a\\b", "a\nb"}

\* one record of each kind, held in memory; nothing encoded yet
InitCodec ==
  /\ \E n, m, c \in CodecStrings, g \in {"Books", "a\"b"} :
       written = (PRODUCTS_FILE :> << Product(1000, n, g, 1250) >>
                  @@ USERS_FILE :> << User(100, m) >>
                  @@ REVIEWS_FILE :> << Review(100, 1000, 5, c) >>)
  /\ disk = EmptyDisk
  /\ view = [f \in FILES |-> << >>]
  /\ proc = [p \in Procs |-> NewProc]
  /\ opsLeft = 0
  /\ log = << >>

\* toJson of the record of kind f: its text is kept in disk[f]
toJson(f) ==
  /\ ~disk[f].exists
  /\ disk' = [disk EXCEPT ![f] = [exists |-> TRUE, text |-> ToJsons(f, written[f])[1]]]
  /\ UNCHANGED << written, view, proc, opsLeft, log >>

\* the body of the loop of loadData for the items of file f
TryItem(f, raw_obj) ==
  CASE f = PRODUCTS_FILE -> TryProduct(raw_obj)
    [] f = USERS_FILE -> TryUser(raw_obj)
    [] OTHER -> TryReview(raw_obj)

\* the fields are extracted from the text and a record is built from them
fromJson(f) ==
  /\ disk[f].exists
  /\ view[f] = << >>
  /\ view' = [view EXCEPT ![f] = Built(<< TryItem(f, disk[f].text) >>)]
  /\ UNCHANGED << disk, written, proc, opsLeft, log >>

NextCodec == \E f \in FILES : toJson(f) \/ fromJson(f)

SpecCodec == InitCodec /\ [][NextCodec]_vars

(***************************************************************************)
(* Properties.                                                             *)
(***************************************************************************)
\* process p has run a command of ops to its end and not yet exited
Done(p, ops) == proc[p].pc = "done" /\ proc[p].cmd.op \in ops

Quiet == \A p \in Procs : proc[p].pc \in {"idle", "done"}

PairReviewed(reviews, userId, productId) ==
  \E k \in 1..Len(reviews) : reviews[k].user_id = userId /\ reviews[k].product_id = productId

NoDuplicatePairs(reviews) ==
  \A i, j \in 1..Len(reviews) :
    i < j => ~(reviews[i].user_id = reviews[j].user_id /\ reviews[i].product_id = reviews[j].product_id)

ReviewOps == {"addReview", "rate"}

\* the comment addReview is given by the command of p
CommentOf(p) == IF proc[p].cmd.op = "rate" THEN "No comment provided." ELSE proc[p].cmd.comment

\* C1: the reviews file never holds two reviews of the same (user_id, product_id)
\* pair, neither in the vector last written to it nor in the vector a load builds
\* from it, also when the commands of two processes overlap.
C1_NoDuplicatePairs ==
  /\ NoDuplicatePairs(written[REVIEWS_FILE])
  /\ NoDuplicatePairs(view[REVIEWS_FILE])

\* two overlapping commands have both added a review of the same pair
C1_Witness ==
  /\ Done(1, ReviewOps) /\ Done(2, ReviewOps)
  /\ proc[1].result.status = "success" /\ proc[2].result.status = "success"
  /\ proc[1].cmd.userId = proc[2].cmd.userId /\ proc[1].cmd.productId = proc[2].cmd.productId
  /\ PairReviewed(view[REVIEWS_FILE], proc[1].cmd.userId, proc[1].cmd.productId)

\* C2: when no command is under way, every stored review names a stored user and
\* a stored product.
C2_NoOrphanReviews ==
  Quiet =>
    /\ \A k \in 1..Len(view[REVIEWS_FILE]) :
         /\ HasId(view[USERS_FILE], view[REVIEWS_FILE][k].user_id)
         /\ HasId(view[PRODUCTS_FILE], view[REVIEWS_FILE][k].product_id)
    /\ \A k \in 1..Len(written[REVIEWS_FILE]) :
         /\ HasId(written[USERS_FILE], written[REVIEWS_FILE][k].user_id)
         /\ HasId(written[PRODUCTS_FILE], written[REVIEWS_FILE][k].product_id)

\* a delete has succeeded on a user or product that reviews named
C2_Witness ==
  \/ /\ Done(1, {"deleteUser"}) /\ proc[1].result.status = "success"
     /\ \E k \in 1..Len(proc[1].loaded.reviews) : proc[1].loaded.reviews[k].user_id = proc[1].cmd.userId
     /\ Len(view[REVIEWS_FILE]) > 0
  \/ /\ Done(1, {"deleteProduct"}) /\ proc[1].result.status = "success"
     /\ \E k \in 1..Len(proc[1].loaded.reviews) : proc[1].loaded.reviews[k].product_id = proc[1].cmd.productId
     /\ Len(view[REVIEWS_FILE]) > 0

C4_ValidationOrder ==
  \A p \in Procs :
    Done(p, ReviewOps) =>
      LET userOk == HasId(proc[p].loaded.users, proc[p].cmd.userId)
          productOk == HasId(proc[p].loaded.products, proc[p].cmd.productId)
          ratingOk == proc[p].cmd.rating \in 1..5
          reviewed == PairReviewed(proc[p].loaded.reviews, proc[p].cmd.userId, proc[p].cmd.productId)
      IN /\ ~userOk => proc[p].result = Error("User not found.")
         /\ userOk /\ ~productOk => proc[p].result = Error("Product not found.")
         /\ userOk /\ productOk /\ ~ratingOk => proc[p].result = Error("Invalid rating (1-5).")
         /\ userOk /\ productOk /\ ratingOk /\ reviewed
              => proc[p].result = Error("User has already reviewed this product.")
         /\ userOk /\ productOk /\ ratingOk /\ ~reviewed => proc[p].result.status = "success"

\* a rating out of range on a pair already reviewed was reported as invalid rating
C4_Witness ==
  /\ Done(1, ReviewOps)
  /\ proc[1].result = Error("Invalid rating (1-5).")
  /\ PairReviewed(proc[1].loaded.reviews, proc[1].cmd.userId, proc[1].cmd.productId)

\* C5: for a loaded user and product and a pair not yet reviewed, addReview
\* succeeds exactly when the rating is in 1..5, reports an invalid rating
\* otherwise, stores the review it accepts, and every review written has a
\* rating in 1..5.
C5_RatingBound ==
  /\ \A p \in Procs :
       ( /\ Done(p, ReviewOps)
         /\ HasId(proc[p].loaded.users, proc[p].cmd.userId)
         /\ HasId(proc[p].loaded.products, proc[p].cmd.productId)
         /\ ~PairReviewed(proc[p].loaded.reviews, proc[p].cmd.userId, proc[p].cmd.productId) )
       => /\ proc[p].result.status = "success" <=> proc[p].cmd.rating \in 1..5
          /\ proc[p].cmd.rating \notin 1..5 => proc[p].result = Error("Invalid rating (1-5).")
          /\ proc[p].cmd.rating \in 1..5 =>
               written[REVIEWS_FILE] =
                 Append(proc[p].loaded.reviews,
                        Review(proc[p].cmd.userId, proc[p].cmd.productId, proc[p].cmd.rating, CommentOf(p)))
  /\ \A k \in 1..Len(written[REVIEWS_FILE]) : written[REVIEWS_FILE][k].rating \in 1..5
  /\ \A k \in 1..Len(view[REVIEWS_FILE]) : view[REVIEWS_FILE][k].rating \in 1..5

\* a review with rating 1 or 5 was accepted and written
C5_Witness ==
  /\ Done(1, ReviewOps)
  /\ proc[1].result.status = "success"
  /\ proc[1].cmd.rating \in {1, 5}
  /\ \E k \in 1..Len(written[REVIEWS_FILE]) :
       /\ written[REVIEWS_FILE][k].user_id = proc[1].cmd.userId
       /\ written[REVIEWS_FILE][k].product_id = proc[1].cmd.productId
       /\ written[REVIEWS_FILE][k].rating = proc[1].cmd.rating

\* C6: a successful deleteUser(U) leaves on file the loaded users without U, the
\* loaded reviews without those of U, and the loaded products, all in their
\* order and with their values; deleteProduct(P) likewise.
C6_DeleteFrame ==
  \A p \in Procs :
    /\ (Done(p, {"deleteUser"}) /\ proc[p].result.status = "success") =>
         /\ view[USERS_FILE] = SelectSeq(proc[p].loaded.users, LAMBDA u : u.id # proc[p].cmd.userId)
         /\ view[REVIEWS_FILE] = SelectSeq(proc[p].loaded.reviews, LAMBDA r : r.user_id # proc[p].cmd.userId)
         /\ view[PRODUCTS_FILE] = proc[p].loaded.products
    /\ (Done(p, {"deleteProduct"}) /\ proc[p].result.status = "success") =>
         /\ view[PRODUCTS_FILE] = SelectSeq(proc[p].loaded.products, LAMBDA x : x.id # proc[p].cmd.productId)
         /\ view[REVIEWS_FILE] = SelectSeq(proc[p].loaded.reviews, LAMBDA r : r.product_id # proc[p].cmd.productId)
         /\ view[USERS_FILE] = proc[p].loaded.users

\* C7 as stated: a command that returns an error leaves the three files as they
\* were when it started.
C7_ErrorWritesNothing ==
  \A p \in Procs :
    (proc[p].pc = "done" /\ proc[p].result.status = "error") => disk = proc[p].before

\* C7: a command that returns an error leaves the three files as they were when
\* it started, unless its loadData loaded nothing: then the files hold the
\* default data that loadData created and saved.
C7_ErrorWritesOnlySeed ==
  \A p \in Procs :
    (proc[p].pc = "done" /\ proc[p].result.status = "error") =>
      IF proc[p].data_loaded THEN disk = proc[p].before ELSE disk = SeededDisk

\* a command on the empty store has returned an error and the files now exist
C7_Witness ==
  /\ proc[1].pc = "done" /\ proc[1].result.status = "error"
  /\ proc[1].before = EmptyDisk
  /\ disk = SeededDisk

IdsOf(vec) == {vec[k].id : k \in 1..Len(vec)}

\* C8: addProduct returns the greatest id among the products loadData left,
\* plus one, or 1000 if it left none; addUser likewise with 100; the id is
\* greater than every such id.
C8_NextId ==
  \A p \in Procs :
    /\ (Done(p, {"addProduct"}) /\ proc[p].result.status = "success") =>
         /\ proc[p].result.id = IF proc[p].loaded.products = << >> THEN 1000
                                ELSE Max(IdsOf(proc[p].loaded.products)) + 1
         /\ \A i \in IdsOf(proc[p].loaded.products) : i < proc[p].result.id
    /\ (Done(p, {"addUser"}) /\ proc[p].result.status = "success") =>
         /\ proc[p].result.id = IF proc[p].loaded.users = << >> THEN 100
                                ELSE Max(IdsOf(proc[p].loaded.users)) + 1
         /\ \A i \in IdsOf(proc[p].loaded.users) : i < proc[p].result.id

\* a product was added to a store without products, or a user to one without users
C8_Witness ==
  \/ /\ Done(1, {"addProduct"}) /\ proc[1].loaded.products = << >> /\ proc[1].result.id = 1000
  \/ /\ Done(1, {"addUser"}) /\ proc[1].loaded.users = << >> /\ proc[1].result.id = 100

\* C9: no two successful addProduct commands return the same id, and no two
\* successful addUser commands.
C9_IdsNeverReused ==
  \A i, j \in 1..Len(log) :
    (i < j /\ log[i].op = log[j].op /\ log[i].op \in {"addProduct", "addUser"}) => log[i].id # log[j].id

\* the commands on products, and on users, that succeeded, in order
ProductLog == SelectSeq(log, LAMBDA e : e.op \in {"addProduct", "deleteProduct"})
UserLog == SelectSeq(log, LAMBDA e : e.op \in {"addUser", "deleteUser"})

\* the ids of the scenario: first and second added product, first and second
\* added user, product added after two additions and the deletion of 1000
IdScenario(first, second, firstUser, secondUser, afterDelete) ==
  /\ (Len(ProductLog) >= 1 /\ ProductLog[1].op = "addProduct") => ProductLog[1].id = first
  /\ (Len(ProductLog) >= 2 /\ ProductLog[1].op = "addProduct" /\ ProductLog[2].op = "addProduct")
       => ProductLog[2].id = second
  /\ (Len(UserLog) >= 1 /\ UserLog[1].op = "addUser") => UserLog[1].id = firstUser
  /\ (Len(UserLog) >= 2 /\ UserLog[1].op = "addUser" /\ UserLog[2].op = "addUser")
       => UserLog[2].id = secondUser
  /\ ( /\ Len(ProductLog) >= 4
       /\ ProductLog[1].op = "addProduct" /\ ProductLog[2].op = "addProduct"
       /\ ProductLog[3] = [op |-> "deleteProduct", id |-> 1000]
       /\ ProductLog[4].op = "addProduct" )
       => ProductLog[4].id = afterDelete

\* C10 as stated: from the empty store the ids are 1000, 1001, 100, 101, and
\* 1002 after the deletion of 1000.
C10_IdsFromEmptyStore == IdScenario(1000, 1001, 100, 101, 1002)

\* C10: from the empty store the first loadData creates products 1000..1003 and
\* users 100 and 101, so the ids are 1004, 1005, 102, 103, and 1006 after the
\* deletion of 1000.
C10_IdsAfterSeeding == IdScenario(1004, 1005, 102, 103, 1006)

\* two products were added, 1000 was deleted, a product was added
C10_Witness ==
  /\ Len(ProductLog) = 4
  /\ ProductLog[1].op = "addProduct" /\ ProductLog[2].op = "addProduct"
  /\ ProductLog[3] = [op |-> "deleteProduct", id |-> 1000]
  /\ ProductLog[4].op = "addProduct"

\* a later entry of the log deletes what entry i added
DeletedLater(i) ==
  \E j \in (i + 1)..Len(log) :
    /\ log[j].id = log[i].id
    /\ log[j].op = (IF log[i].op = "addUser" THEN "deleteUser" ELSE "deleteProduct")

\* C11: when the commands run one after the other, every user and every product
\* that a successful addUser or addProduct added is in the vector last written to
\* its file after every later command, unless a later successful delete removed it.
C11_NoLostUpdate ==
  Quiet =>
    \A i \in 1..Len(log) :
      /\ (log[i].op = "addUser" /\ ~DeletedLater(i)) => HasId(written[USERS_FILE], log[i].id)
      /\ (log[i].op = "addProduct" /\ ~DeletedLater(i)) => HasId(written[PRODUCTS_FILE], log[i].id)

MutatingOps == {"addUser", "addProduct", "addReview", "rate", "deleteUser", "deleteProduct"}

\* the command of p passes every check of its method on what p loaded
ValidOnLoaded(p) ==
  LET c == proc[p].cmd
  IN CASE c.op \in ReviewOps ->
            /\ HasId(proc[p].loaded.users, c.userId)
            /\ HasId(proc[p].loaded.products, c.productId)
            /\ c.rating \in 1..5
            /\ ~PairReviewed(proc[p].loaded.reviews, c.userId, c.productId)
       [] c.op = "deleteUser" -> HasId(proc[p].loaded.users, c.userId)
       [] c.op = "deleteProduct" -> HasId(proc[p].loaded.products, c.productId)
       [] OTHER -> TRUE

\* both processes have run a mutating command to its end on the same loaded
\* collections, and each command was valid on them
BothMutated ==
  /\ Done(1, MutatingOps) /\ Done(2, MutatingOps)
  /\ proc[1].loaded = proc[2].loaded
  /\ ValidOnLoaded(1) /\ ValidOnLoaded(2)

\* the three files hold what process p saved
AllFrom(p) ==
  /\ written[PRODUCTS_FILE] = proc[p].products
  /\ written[USERS_FILE] = proc[p].users
  /\ written[REVIEWS_FILE] = proc[p].reviews

C13_WriteFailureReported ==
  \A p \in Procs :
    (Done(p, MutatingOps) /\ proc[p].cerr # << >>) => proc[p].result.status = "error"

\* the vectors loadData builds from the files that saveData writes from vecs
Reloaded(vecs) == [f \in FILES |-> LoadFile(f, FileOf(f, vecs[f]).text)]

\* C14: whatever the commands have written, saving the products, users and
\* reviews that loadData builds from the files and loading them again gives the
\* same products, users and reviews, and so does a second save and load.
C14_LoadIdempotent ==
  Quiet => /\ Reloaded(view) = view
           /\ Reloaded(Reloaded(view)) = view

\* C15: the record built from the fields that extractJsonValue takes out of the
\* text toJson gives for a product, a user or a review has the fields of that
\* record, also when its name, category or comment holds a double quote, a
\* backslash or a newline.
C15_RoundTrip == \A f \in FILES : view[f] # << >> => view[f] = written[f]

\* the indices of the reviews of user userId, in the order of the vector
ReviewIndicesOf(reviews, userId) == {k \in 1..Len(reviews) : reviews[k].user_id = userId}

\* C16: recommend for an id that no loaded user has returns the user-not-found
\* error; for a loaded user without any loaded review it returns the no-history
\* error; for a loaded user with a review it returns neither; an error result
\* carries no recommendation list.
C16_RecommendErrors ==
  \A p \in Procs :
    Done(p, {"recommend"}) =>
      LET known == \E k \in 1..Len(proc[p].loaded.users) : proc[p].loaded.users[k].id = proc[p].cmd.userId
          history == ReviewIndicesOf(proc[p].loaded.reviews, proc[p].cmd.userId) # {}
      IN /\ ~known => proc[p].result = Error("User not found.")
         /\ (known /\ ~history) => proc[p].result = Error("User has no review history for recommendations.")
         /\ (known /\ history) =>
              proc[p].result.message \notin {"User not found.", "User has no review history for recommendations."}
         /\ proc[p].result.status = "error" => proc[p].result.list = << >>

\* recommend was refused for an unknown user who has no review either
C16_Witness ==
  /\ Done(1, {"recommend"})
  /\ proc[1].result = Error("User not found.")
  /\ ReviewIndicesOf(proc[1].loaded.reviews, proc[1].cmd.userId) = {}
  /\ proc[1].loaded.users # << >>

\* the product id of the last review of user userId in the vector
LastReviewed(reviews, userId) == reviews[Max(ReviewIndicesOf(reviews, userId))].product_id

\* the category that a successful recommend reports, in target_category or, when
\* it recommends nothing, in its message
ReportsCategory(r, category) ==
  IF r.list = << >>
  THEN r.message = "No new recommendations available in category " \o category \o "."
  ELSE r.target_category = category

\* C17: a successful recommend reports the category of the product of the last
\* review of that user in the loaded reviews, whatever other users reviewed
\* after it.
C17_TargetCategory ==
  \A p \in Procs :
    (Done(p, {"recommend"}) /\ proc[p].result.status = "success") =>
      /\ ReviewIndicesOf(proc[p].loaded.reviews, proc[p].cmd.userId) # {}
      /\ \E k \in 1..Len(proc[p].loaded.products) :
           /\ proc[p].loaded.products[k].id = LastReviewed(proc[p].loaded.reviews, proc[p].cmd.userId)
           /\ ReportsCategory(proc[p].result, proc[p].loaded.products[k].category)

\* recommend succeeded for a user whose first review is of another category than
\* the last, and after whose last review another user reviewed a product of
\* another category
C17_Witness ==
  /\ Done(1, {"recommend"}) /\ proc[1].result.status = "success"
  /\ proc[1].result.target_category = "Books"
  /\ LET reviews == proc[1].loaded.reviews
         mine == ReviewIndicesOf(reviews, proc[1].cmd.userId)
     IN /\ mine # {}
        /\ reviews[Min(mine)].product_id = 1000
        /\ reviews[Max(mine)].product_id = 1002
        /\ reviews[Len(reviews)].user_id # proc[1].cmd.userId
        /\ reviews[Len(reviews)].product_id = 1000

\* the indices of the products of the category that user userId has not reviewed
Unreviewed(products, reviews, userId, category) ==
  {k \in 1..Len(products) : /\ products[k].category = category
                            /\ ~PairReviewed(reviews, userId, products[k].id)}

\* C18: every product a successful recommend returns is a loaded product of the
\* category of the user's last reviewed product that the user has not reviewed,
\* and the number returned is the smaller of 3 and the number of such products.
C18_Candidates ==
  \A p \in Procs :
    (Done(p, {"recommend"}) /\ proc[p].result.status = "success") =>
      \A k \in 1..Len(proc[p].loaded.products) :
        proc[p].loaded.products[k].id = LastReviewed(proc[p].loaded.reviews, proc[p].cmd.userId) =>
          LET unreviewed == Unreviewed(proc[p].loaded.products, proc[p].loaded.reviews, proc[p].cmd.userId,
                                       proc[p].loaded.products[k].category)
              list == proc[p].result.list
          IN /\ \A j \in 1..Len(list) : \E u \in unreviewed : proc[p].loaded.products[u] = list[j].product
             /\ Len(list) = IF Cardinality(unreviewed) < 3 THEN Cardinality(unreviewed) ELSE 3

\* three products were returned out of four candidates, for a user who has
\* reviewed another product of that category
C18_Witness ==
  /\ Done(1, {"recommend"}) /\ proc[1].result.status = "success"
  /\ Len(proc[1].result.list) = 3
  /\ Cardinality(Unreviewed(proc[1].loaded.products, proc[1].loaded.reviews, proc[1].cmd.userId, "Books")) = 4
  /\ PairReviewed(proc[1].loaded.reviews, proc[1].cmd.userId, 1002)
  /\ proc[1].result.target_category = "Books"

\* the position of product x in the vector of products
IndexOf(products, x) == Min({k \in 1..Len(products) : products[k] = x})

\* neither average is greater than the other
SameAverage(a, b) == ~AvgGreater(a, b) /\ ~AvgGreater(b, a)

\* C19: the list a successful recommend returns is in order of non-increasing
\* average rating, no candidate left out has a higher average than a returned
\* one, and returned products of equal average are in the order they have in
\* the products collection, each before every candidate of that average that
\* was left out.
C19_StableOrder ==
  \A p \in Procs :
    (Done(p, {"recommend"}) /\ proc[p].result.status = "success" /\ proc[p].result.list # << >>) =>
      LET products == proc[p].loaded.products
          reviews == proc[p].loaded.reviews
          list == proc[p].result.list
          returned == {list[j].product : j \in 1..Len(list)}
          omitted == {products[k] : k \in Unreviewed(products, reviews, proc[p].cmd.userId,
                                                     proc[p].result.target_category)} \ returned
          avg(x) == calculateAverageRating(reviews, x.id)
      IN /\ \A i, j \in 1..Len(list) :
              i < j => ~AvgGreater(avg(list[j].product), avg(list[i].product))
         /\ \A x \in omitted, j \in 1..Len(list) : ~AvgGreater(avg(x), avg(list[j].product))
         /\ \A i, j \in 1..Len(list) :
              (i < j /\ SameAverage(avg(list[i].product), avg(list[j].product)))
                => IndexOf(products, list[i].product) < IndexOf(products, list[j].product)
         /\ \A x \in omitted, j \in 1..Len(list) :
              SameAverage(avg(x), avg(list[j].product))
                => IndexOf(products, list[j].product) < IndexOf(products, x)

\* C20: when the user has reviewed every loaded product of the category of the
\* product of their last review, recommend returns a success result with an
\* empty list of recommendations.
C20_EmptyIsSuccess ==
  \A p \in Procs :
    ( /\ Done(p, {"recommend"})
      /\ \E k \in 1..Len(proc[p].loaded.users) : proc[p].loaded.users[k].id = proc[p].cmd.userId
      /\ ReviewIndicesOf(proc[p].loaded.reviews, proc[p].cmd.userId) # {} ) =>
      \A k \in 1..Len(proc[p].loaded.products) :
        ( /\ proc[p].loaded.products[k].id = LastReviewed(proc[p].loaded.reviews, proc[p].cmd.userId)
          /\ Unreviewed(proc[p].loaded.products, proc[p].loaded.reviews, proc[p].cmd.userId,
                        proc[p].loaded.products[k].category) = {} )
        => /\ proc[p].result.status = "success"
           /\ proc[p].result.list = << >>

\* recommend returned nothing to a user who has reviewed both products of the
\* category of their last review
C20_Witness ==
  /\ Done(1, {"recommend"})
  /\ proc[1].result.status = "success" /\ proc[1].result.list = << >>
  /\ PairReviewed(proc[1].loaded.reviews, proc[1].cmd.userId, 1000)
  /\ PairReviewed(proc[1].loaded.reviews, proc[1].cmd.userId, 1001)
  /\ Unreviewed(proc[1].loaded.products, proc[1].loaded.reviews, proc[1].cmd.userId, "Electronics") = {}
  /\ proc[1].result.message = "No new recommendations available in category Electronics."

\* every review of product productId in the vector has this rating, and there is one
AllRated(reviews, productId, rating) ==
  /\ \E k \in 1..Len(reviews) : reviews[k].product_id = productId
  /\ \A k \in 1..Len(reviews) : reviews[k].product_id = productId => reviews[k].rating = rating

\* C21: with products 1000 and 1001 the only ones of Electronics, 1002 of Books,
\* averages 5.0, 4.0 and 3.0, and a user whose only review is of 1000,
\* recommend for that user succeeds with target category Electronics and the
\* list of product 1001 alone, with average 4.0.
C21_Scenario ==
  \A p \in Procs :
    LET products == proc[p].loaded.products
        reviews == proc[p].loaded.reviews
        userId == proc[p].cmd.userId
    IN ( /\ Done(p, {"recommend"})
         /\ \E k \in 1..Len(proc[p].loaded.users) : proc[p].loaded.users[k].id = userId
         /\ {products[k].id : k \in {j \in 1..Len(products) : products[j].category = "Electronics"}} = {1000, 1001}
         /\ \E k \in 1..Len(products) : products[k].id = 1002 /\ products[k].category = "Books"
         /\ AllRated(reviews, 1000, 5) /\ AllRated(reviews, 1001, 4) /\ AllRated(reviews, 1002, 3)
         /\ {reviews[k].product_id : k \in ReviewIndicesOf(reviews, userId)} = {1000} )
       => /\ proc[p].result.status = "success"
          /\ proc[p].result.target_category = "Electronics"
          /\ Len(proc[p].result.list) = 1
          /\ proc[p].result.list[1].product.id = 1001
          /\ proc[p].result.list[1].avg_rating.sum = 4 * proc[p].result.list[1].avg_rating.count
          /\ proc[p].result.list[1].avg_rating.count > 0

\* recommend has answered in that scenario
C21_Witness ==
  /\ Done(1, {"recommend"})
  /\ AllRated(proc[1].loaded.reviews, 1000, 5)
  /\ AllRated(proc[1].loaded.reviews, 1001, 4)
  /\ AllRated(proc[1].loaded.reviews, 1002, 3)
  /\ {proc[1].loaded.reviews[k].product_id :
        k \in ReviewIndicesOf(proc[1].loaded.reviews, proc[1].cmd.userId)} = {1000}
  /\ Len(proc[1].result.list) = 1
  /\ proc[1].result.list[1].product.id = 1001

QueryOps == {"getProducts", "getUsers", "getReviews", "recommend", "purchase"}

\* C22 as stated: a query or a purchase leaves the three files as they were when
\* it started, whatever they held.
C22_QueriesWriteNothing ==
  \A p \in Procs : Done(p, QueryOps) => disk = proc[p].before

\* C22: a query or a purchase leaves the three files as they were when it
\* started, unless its loadData loaded no product, no user and no review: then
\* the files hold the default data that loadData created and saved.
C22_QueriesWriteOnlySeed ==
  \A p \in Procs :
    Done(p, QueryOps) => IF proc[p].data_loaded THEN disk = proc[p].before ELSE disk = SeededDisk

\* a purchase was acknowledged on a store with data, and the files are as before
C22_Witness ==
  /\ Done(1, {"purchase"}) /\ proc[1].result.status = "success"
  /\ proc[1].data_loaded
  /\ disk = proc[1].before
  /\ \A f \in FILES : disk[f].exists

\* C23: the average of a product is the sum of the ratings of the reviews of
\* that product divided by their number, and 0 when it has no review: so in the
\* list recommend returns, over the loaded reviews, and in the result of a
\* successful addReview, over the loaded reviews and the review just added.
C23_Average ==
  LET IsAverage(a, reviews, productId) ==
        LET mine == {k \in 1..Len(reviews) : reviews[k].product_id = productId}
            total == SumSeq([k \in 1..Len(reviews) |-> IF k \in mine THEN reviews[k].rating ELSE 0])
        IN /\ a.count # 0
           /\ IF mine = {} THEN a.sum = 0 ELSE a.sum * Cardinality(mine) = total * a.count
  IN \A p \in Procs :
       /\ (Done(p, ReviewOps) /\ proc[p].result.status = "success") =>
            IsAverage(proc[p].result.avg,
                      Append(proc[p].loaded.reviews,
                             Review(proc[p].cmd.userId, proc[p].cmd.productId, proc[p].cmd.rating, CommentOf(p))),
                      proc[p].cmd.productId)
       /\ Done(p, {"recommend"}) =>
            \A j \in 1..Len(proc[p].result.list) :
              IsAverage(proc[p].result.list[j].avg_rating, proc[p].loaded.reviews,
                        proc[p].result.list[j].product.id)

\* a review was added to a product that had one, and the average returned is
\* that of the two ratings, which differ
C23_Witness ==
  /\ Done(1, ReviewOps) /\ proc[1].result.status = "success"
  /\ Cardinality({k \in 1..Len(proc[1].loaded.reviews) :
                    proc[1].loaded.reviews[k].product_id = proc[1].cmd.productId}) = 1
  /\ \E k \in 1..Len(proc[1].loaded.reviews) :
       /\ proc[1].loaded.reviews[k].product_id = proc[1].cmd.productId
       /\ proc[1].loaded.reviews[k].rating # proc[1].cmd.rating
       /\ 2 * proc[1].result.avg.sum
            = (proc[1].loaded.reviews[k].rating + proc[1].cmd.rating) * proc[1].result.avg.count

\* no two elements of a vector of products or of users have the same id
UniqueIds(vec) == \A i, j \in 1..Len(vec) : vec[i].id = vec[j].id => i = j

\* C24: in every persisted state, also when invocations overlap, no two
\* products of the products file share an id and no two users of the users
\* file share an id.
C24_UniqueIds ==
  \A f \in {PRODUCTS_FILE, USERS_FILE} : UniqueIds(view[f]) /\ UniqueIds(written[f])

\* C25: no product of the products file has a price below 0.
C25_NonNegativePrices ==
  /\ \A k \in 1..Len(view[PRODUCTS_FILE]) : view[PRODUCTS_FILE][k].price >= 0
  /\ \A k \in 1..Len(written[PRODUCTS_FILE]) : written[PRODUCTS_FILE][k].price >= 0

\* process p has gone through loadData
Loaded(p) == proc[p].pc \in {"run", "done"} \cup SavePcs

\* the vector loadData built from file f
LoadedOf(p, f) ==
  CASE f = PRODUCTS_FILE -> proc[p].loaded.products
    [] f = USERS_FILE -> proc[p].loaded.users
    [] OTHER -> proc[p].loaded.reviews

\* C26: a fragment with a numeric field that cannot be decoded does not end the
\* load: of a file of two fragments, each well-formed or undecodable, the load
\* builds the elements of the well-formed ones, in file order, and the other
\* two files, which hold the default data, are loaded whole.
C26_SkipsOnlyTheFragment ==
  LET Default(g) == CASE g = PRODUCTS_FILE -> DefaultProducts
                      [] g = USERS_FILE -> DefaultUsers
                      [] OTHER -> DefaultReviews
  IN \A p \in Procs : \A f \in FILES :
       \A x, y \in {z \in Fragments(f) : z.kind \in {"good", "undecodable"}} :
         (/\ Loaded(p)
          /\ proc[p].before[f].text = writeVector(<< x.json, y.json >>)
          /\ \A g \in FILES \ {f} : proc[p].before[g] = SeededDisk[g]) =>
           /\ LoadedOf(p, f) = x.vals \o y.vals
           /\ \A g \in FILES \ {f} : LoadedOf(p, g) = Default(g)

\* a load of a products file whose first fragment is undecodable and whose
\* second is well-formed has built the one product of the second
C26_Witness ==
  \E p \in Procs : \E x, y \in Fragments(PRODUCTS_FILE) :
    /\ Loaded(p)
    /\ x.kind = "undecodable" /\ y.kind = "good"
    /\ proc[p].before[PRODUCTS_FILE].text = writeVector(<< x.json, y.json >>)
    /\ proc[p].loaded.products = y.vals
    /\ proc[p].loaded.users = DefaultUsers

\* C27: a fragment in which a numeric or a textual field is missing is skipped:
\* of a file of two fragments, each well-formed or with a field missing, the
\* load builds the elements of the well-formed ones only.
C27_MissingFieldSkips ==
  \A p \in Procs : \A f \in FILES :
    \A x, y \in {z \in Fragments(f) : z.kind \in {"good", "number missing", "text missing"}} :
      (Loaded(p) /\ proc[p].before[f].text = writeVector(<< x.json, y.json >>)) =>
        LoadedOf(p, f) = x.vals \o y.vals

\* C28: loadData creates the default data (products 1000..1003, users 100 and
\* 101, four reviews, next ids 1004 and 102) and writes the three files at once
\* exactly when the three files gave no product, no user and no review; when
\* one of them gave an element, the vectors are the ones read and the load
\* writes no file.
C28_SeedsExactlyWhenEmpty ==
  \A p \in Procs :
    Loaded(p) =>
      LET read == Stored(proc[p].before)
      IN IF \A f \in FILES : read[f] = << >>
         THEN /\ proc[p].loaded = [products |-> DefaultProducts, users |-> DefaultUsers,
                                   reviews |-> DefaultReviews]
              /\ proc[p].pc = "run" =>
                    /\ disk = SeededDisk
                    /\ proc[p].nextProductId = 1004 /\ proc[p].nextUserId = 102
         ELSE /\ proc[p].loaded = [products |-> read[PRODUCTS_FILE], users |-> read[USERS_FILE],
                                   reviews |-> read[REVIEWS_FILE]]
              /\ proc[p].pc \notin {"seedProducts", "seedUsers", "seedReviews"}
              /\ proc[p].pc = "run" => disk = proc[p].before

\* both users of a store without products and reviews were deleted, and the
\* next command found three empty arrays and has the default data on file again
C28_Witness ==
  /\ Len(log) = 2 /\ \A k \in 1..2 : log[k].op = "deleteUser"
  /\ \E p \in Procs :
       /\ proc[p].pc = "run"
       /\ \A f \in FILES : proc[p].before[f] = FileOf(f, << >>)
       /\ proc[p].loaded.users = DefaultUsers
       /\ disk = SeededDisk

\* C29: with one command at a time, from an empty or a seeded store, recommend
\* never returns the error "Internal data error: Last reviewed product missing."
C29_NoDataIntegrityError ==
  \A p \in Procs :
    (proc[p].pc = "done" /\ proc[p].cmd.op = "recommend") =>
      proc[p].result.message # "Internal data error: Last reviewed product missing."

\* product 1001, the last that user 100 reviewed in the default data, was
\* deleted, and the recommendation for user 100 then went by product 1000, of
\* whose category no other product is left
C29_Witness ==
  /\ \E k \in 1..Len(log) : log[k] = [op |-> "deleteProduct", id |-> 1001]
  /\ \E p \in Procs :
       /\ proc[p].pc = "done" /\ proc[p].cmd = RecommendCmd(100)
       /\ proc[p].result.status = "success"
       /\ proc[p].result.message = "No new recommendations available in category Electronics."
       /\ ~HasId(proc[p].products, 1001)

\* C30 as stated: when a review that was saved has a comment with a comma or a
\* brace, a load of the reviews file does not give back the reviews saved.
C30_BreaksOnCommaOrBrace ==
  (\E k \in 1..Len(written[REVIEWS_FILE]) :
     \E i \in 1..Len(written[REVIEWS_FILE][k].comment) :
       Ch(written[REVIEWS_FILE][k].comment, i) \in {",", "{", "}"})
  => view[REVIEWS_FILE] # written[REVIEWS_FILE]

\* C30: a comment breaks the splitting when its braces do not cancel, or when it
\* has a comma that follows one more closing than opening brace.  When no
\* comment saved breaks it, a load gives back the reviews saved, commas and
\* cancelling braces in the comments included (so with the comment "a, {b}");
\* when a review other than the last has a comment that breaks it, a load does
\* not give back the reviews saved.
C30_BreaksOnUnmatchedBrace ==
  LET w == written[REVIEWS_FILE]
      Opens(c, i) == Cardinality({j \in 1..i : Ch(c, j) = "{"})
      Closes(c, i) == Cardinality({j \in 1..i : Ch(c, j) = "}"})
      Breaks(c) == \/ Opens(c, Len(c)) # Closes(c, Len(c))
                   \/ \E i \in 1..Len(c) : Ch(c, i) = "," /\ Closes(c, i) - Opens(c, i) = 1
  IN /\ (\A k \in 1..Len(w) : ~Breaks(w[k].comment)) => view[REVIEWS_FILE] = w
     /\ (\E k \in 1..(Len(w) - 1) : Breaks(w[k].comment)) => view[REVIEWS_FILE] # w

\* a review with the comment "a}b" was saved and then one more review: a load
\* gives the reviews up to the first of the two, and not the second
C30_Witness ==
  \E k \in 1..(Len(written[REVIEWS_FILE]) - 1) :
    /\ written[REVIEWS_FILE][k].comment = "a}b"
    /\ written[REVIEWS_FILE][k + 1] = Review(101, 1000, 2, "ok")
    /\ view[REVIEWS_FILE] = SubSeq(written[REVIEWS_FILE], 1, k)

\* C31: with one command at a time, the reviews a load gives are in the order in
\* which they were added: a command that adds a review leaves the reviews as
\* they were with the new one last, a deletion leaves the survivors in their
\* order, and any other command leaves the reviews as they were.
C31_InsertionOrder ==
  [][\A p \in Procs :
       (proc[p].pc = "saveReviews" /\ proc'[p].pc = "done") =>
         LET c   == proc[p].cmd
             old == view[REVIEWS_FILE]
             new == view'[REVIEWS_FILE]
         IN CASE c.op \in {"addReview", "rate"} ->
                   new = Append(old, Review(c.userId, c.productId, c.rating,
                                            IF c.op = "rate" THEN "No comment provided." ELSE c.comment))
              [] c.op = "deleteUser" -> new = SelectSeq(old, LAMBDA r : r.user_id # c.userId)
              [] c.op = "deleteProduct" -> new = SelectSeq(old, LAMBDA r : r.product_id # c.productId)
              [] OTHER -> new = old]_vars

\* C32: when two commands that change the store have overlapped and both have
\* returned, every review of the reviews file names a user of the users file
\* and a product of the products file.
C32_IntegrityAfterOverlap ==
  (\A p \in Procs :
     /\ proc[p].pc = "done"
     /\ proc[p].cmd.op \in {"addReview", "rate", "deleteUser"}
     /\ proc[p].result.status = "success") =>
    \A k \in 1..Len(view[REVIEWS_FILE]) :
      /\ \E u \in 1..Len(view[USERS_FILE]) : view[USERS_FILE][u].id = view[REVIEWS_FILE][k].user_id
      /\ \E x \in 1..Len(view[PRODUCTS_FILE]) : view[PRODUCTS_FILE][x].id = view[REVIEWS_FILE][k].product_id

====
